---- MODULE Spec2Model ----
(* Model of the wallet engine orchestrator `walletPixie`                    *)
(* (currency-wallet-pixie.js): one wallet, one engine generation at a time. *)
(* A tick re-evaluates the six workers in declaration order; every await    *)
(* in a worker body is a separate continuation action.                      *)
EXTENDS Integers, Sequences, FiniteSets, TLC

\* ---------------------------------------------------------------- bounds
MaxSettings == 1      \* user-settings references are 0..MaxSettings
MaxGen == 1        \* rebuilds of the worker group after a teardown
MaxLog == 26          \* longest trace of dispatches and calls explored
Interval == 1         \* length of the sync period, in clock steps (30 * 1000 ms)

\* ------------------------------------------------------------- variables
VARIABLES
  statePaused,      \* props.state.paused
  selfPaused,       \* props.selfState.paused
  pluginReady,      \* the plugin registry resolves this wallet type
  storageWallet,    \* state.storageWallets[id] exists
  lastSync,         \* state.storageWallets[id].status.lastSync (0 = unset)
  userSettings,     \* state.accounts[accountId].userSettings[pluginId] (reference)
  cacheFile,        \* publicKey.json on the wallet's local disklet
  engineStarted,    \* selfState.engineStarted
  fiatLoaded,       \* selfState.fiatLoaded
  fileNamesLoaded,  \* selfState.fileNamesLoaded
  nameLoaded,       \* selfState.nameLoaded
  publicWalletInfo, \* selfState.publicWalletInfo ("none" | "empty" | "keys")
  eventKeys,        \* keys in the payload of CURRENCY_WALLET_PUBLIC_INFO
  factoryKeys,      \* keys of the wallet info given to makeCurrencyEngine
  selfOutput,       \* [plugin, engine, api : BOOLEAN]
  enginePc,         \* position of the engine worker's async update
  capturedSettings, \* userSettings read by the engine worker after the attach
  engineSettings,   \* settings the engine last received (-1 = no engine yet)
  derived,          \* outcome of tools.derivePublicKey
  failedAt,         \* the step of the engine worker that threw ("" = none)
  staking,          \* the getStakingStatus promise
  files,            \* the unawaited loadAllFiles call
  watching,         \* watchCurrencyWallet attached
  apiDone,          \* the api worker returned stopUpdates
  startupPromise,   \* engineStarted worker: "none" | "scheduled" | "running" | "settled"
  killChain,        \* engineStarted.destroy chain: "none" | "waiting" | "running" | "done"
  taskStarted,      \* periodic task: started flag
  timer,            \* periodic task: clock steps until the pending timeout fires (-1 = none)
  syncRunning,      \* periodic task: doSync invocations in flight
  syncRejected,     \* periodic task: the doSync that settled last rejected
  stateDirty,       \* watcher: lastState !== selfState
  lastSettings,     \* watcher: lastSettings (-1 = undefined)
  teardown,         \* group teardown: done, how it found the wallet; generation;
                    \* doSync invocations of earlier generations in flight
  tickDid,          \* effects of the most recent tick (observation)
  log               \* dispatches, outputs, plugin/engine calls and onError, in order
                    \* (onError of a failed start or kill names the call)

envVars    == <<statePaused, selfPaused, pluginReady, storageWallet, lastSync,
                userSettings, cacheFile>>
loadedVars == <<fiatLoaded, fileNamesLoaded, nameLoaded>>
infoVars == <<publicWalletInfo, eventKeys, factoryKeys>>
engineVars == <<enginePc, capturedSettings, derived, failedAt, staking, files,
                watching>>
taskVars   == <<taskStarted, timer, syncRunning, syncRejected>>
vars == <<statePaused, selfPaused, pluginReady, storageWallet, lastSync,
          userSettings, cacheFile, engineStarted, fiatLoaded, fileNamesLoaded,
          nameLoaded, publicWalletInfo, eventKeys, factoryKeys, selfOutput,
          enginePc, capturedSettings,
          engineSettings, derived, failedAt, staking, files, watching, apiDone,
          startupPromise, killChain, taskStarted, timer, syncRunning,
          syncRejected,
          stateDirty, lastSettings, teardown, tickDid, log>>

\* --------------------------------------------------------------- helpers
Count(s, x) == Cardinality({i \in 1..Len(s) : s[i] = x})

IndexOf(s, x) ==
  LET at == {i \in 1..Len(s) : s[i] = x}
  IN IF at = {} THEN 0 ELSE CHOOSE i \in at : \A j \in at : i <= j

\* Variant: the guard looks at the wallet's own pause flag only.
PausedFilter_selfOnly == selfPaused

\* The guard of both filterPixie wrappers.
PausedFilter == statePaused \/ selfPaused

\* The worker group has been torn down.
destroyed == teardown.done

\* ------------------------------------------------------------------ init
Init ==
  /\ statePaused \in BOOLEAN
  /\ selfPaused \in BOOLEAN
  /\ pluginReady \in BOOLEAN
  /\ storageWallet = FALSE
  /\ lastSync = 0
  /\ userSettings = 0
  /\ cacheFile \in {"none", "keys"}
  /\ engineStarted = FALSE
  /\ fiatLoaded = FALSE
  /\ fileNamesLoaded = FALSE
  /\ nameLoaded = FALSE
  /\ publicWalletInfo = "none"
  /\ eventKeys = {}
  /\ factoryKeys = {}
  /\ selfOutput = [plugin |-> FALSE, engine |-> FALSE, api |-> FALSE]
  /\ enginePc = "idle"
  /\ capturedSettings = -1
  /\ engineSettings = -1
  /\ derived = "none"
  /\ failedAt = ""
  /\ staking = "none"
  /\ files = "none"
  /\ watching = FALSE
  /\ apiDone = FALSE
  /\ startupPromise = "none"
  /\ killChain = "none"
  /\ taskStarted = FALSE
  /\ timer = -1
  /\ syncRunning = 0
  /\ syncRejected = FALSE
  /\ stateDirty = TRUE
  /\ lastSettings = -1
  /\ teardown = [done |-> FALSE, paused |-> FALSE, during |-> "none", gen |-> 0,
                  orphans |-> 0]
  /\ tickDid = {}
  /\ log = <<>>

\* ------------------------------------------------- the supervision library
\* A worker whose update returned a promise receives no update while that
\* promise is pending, and none after it returned stopUpdates.
TameIdle(pc) == pc = "idle"

\* The output bundle is undefined until the first onOutput of any worker.
HasSelfOutput(out) == out.plugin \/ out.engine \/ out.api

\* The wallet reducer's engineStarted flag.
ReduceEngineStarted(cur, type) ==
  IF type = "CURRENCY_ENGINE_STARTED" THEN TRUE
  ELSE IF type = "CURRENCY_ENGINE_STOPPED" THEN FALSE
  ELSE cur

\* The wallet reducer's publicWalletInfo field.
ReducePublicWalletInfo(cur, type, payload) ==
  IF type = "CURRENCY_WALLET_PUBLIC_INFO" THEN payload ELSE cur

\* makePeriodicTask(...).start({ wait }): a no-op when already started.
TaskStart(w, wait) ==
  IF w.taskStarted THEN w
  ELSE [w EXCEPT !.taskStarted = TRUE,
                 !.timer = IF wait THEN Interval ELSE 0]

\* --------------------------------------------------- the workers of a tick
\* The part of the state a tick reads and writes, threaded through the
\* workers in declaration order.
TickView ==
  [selfOutput |-> selfOutput, enginePc |-> enginePc, apiDone |-> apiDone,
   startupPromise |-> startupPromise, engineStarted |-> engineStarted,
   taskStarted |-> taskStarted, timer |-> timer, stateDirty |-> stateDirty,
   lastSettings |-> lastSettings, engineSettings |-> engineSettings,
   tickDid |-> {}, log |-> log]

\* Variant: the plugin output is published whether or not the lookup found
\* a plugin.
pluginPixie_eager(w) ==
  IF HasSelfOutput(w.selfOutput) /\ w.selfOutput.plugin THEN w
  ELSE [w EXCEPT !.selfOutput.plugin = TRUE, !.log = Append(@, "out:plugin")]

\* plugin: looks up the currency plugin for this wallet.
pluginPixie(w) ==
  IF HasSelfOutput(w.selfOutput) /\ w.selfOutput.plugin THEN w
  ELSE IF pluginReady
       THEN [w EXCEPT !.selfOutput.plugin = TRUE, !.log = Append(@, "out:plugin")]
       ELSE w

\* engine: the synchronous head of the async update, up to the first await.
enginePixie(w) ==
  IF ~TameIdle(w.enginePc) THEN w
  ELSE IF ~HasSelfOutput(w.selfOutput) THEN w
  ELSE IF ~w.selfOutput.plugin THEN w
  ELSE [w EXCEPT !.enginePc = "attach", !.log = Append(@, "addStorageWallet")]

\* Variant: the api worker does not wait for the wallet name.
apiPixie_noName(w) ==
  IF w.apiDone THEN w
  ELSE IF \/ ~HasSelfOutput(w.selfOutput)
          \/ ~w.selfOutput.plugin
          \/ ~w.selfOutput.engine
          \/ publicWalletInfo = "none"
       THEN w
       ELSE [w EXCEPT !.selfOutput.api = TRUE, !.apiDone = TRUE,
                      !.log = Append(@, "out:api")]

\* Variant: the api worker keeps updating and withdraws its output when a
\* precondition is gone.
apiPixie_revert(w) ==
  IF \/ ~HasSelfOutput(w.selfOutput)
     \/ ~w.selfOutput.plugin
     \/ ~w.selfOutput.engine
     \/ publicWalletInfo = "none"
     \/ ~nameLoaded
  THEN [w EXCEPT !.selfOutput.api = FALSE]
  ELSE IF w.selfOutput.api THEN w
  ELSE [w EXCEPT !.selfOutput.api = TRUE, !.apiDone = TRUE,
                 !.log = Append(@, "out:api")]

\* Variant: the api worker does not return stopUpdates and builds the API
\* object again on every tick.
apiPixie_again(w) ==
  IF \/ ~HasSelfOutput(w.selfOutput)
     \/ ~w.selfOutput.plugin
     \/ ~w.selfOutput.engine
     \/ publicWalletInfo = "none"
     \/ ~nameLoaded
  THEN w
  ELSE [w EXCEPT !.selfOutput.api = TRUE, !.apiDone = TRUE,
                 !.log = Append(@, "out:api")]

\* api: creates the API object.
apiPixie(w) ==
  IF w.apiDone THEN w
  ELSE IF \/ ~HasSelfOutput(w.selfOutput)
          \/ ~w.selfOutput.plugin
          \/ ~w.selfOutput.engine
          \/ publicWalletInfo = "none"
          \/ ~nameLoaded
       THEN w
       ELSE [w EXCEPT !.selfOutput.api = TRUE, !.apiDone = TRUE,
                      !.log = Append(@, "out:api")]

\* Variant: the start does not wait for the api output.
engineStartedUpdate_noApi(w) ==
  IF \/ ~HasSelfOutput(w.selfOutput)
     \/ ~fiatLoaded
     \/ ~fileNamesLoaded
     \/ w.engineStarted
  THEN w
  ELSE IF w.selfOutput.engine /\ w.startupPromise = "none"
       THEN [w EXCEPT !.log = Append(@, "CURRENCY_ENGINE_STARTED"),
                      !.engineStarted =
                         ReduceEngineStarted(@, "CURRENCY_ENGINE_STARTED"),
                      !.stateDirty = TRUE,
                      !.startupPromise = "scheduled",
                      !.tickDid = @ \cup {"startupPromise"}]
       ELSE w

\* Variant: the start does not wait for the fiat file.
engineStartedUpdate_noFiat(w) ==
  IF \/ ~HasSelfOutput(w.selfOutput)
     \/ ~w.selfOutput.api
     \/ ~fileNamesLoaded
     \/ w.engineStarted
  THEN w
  ELSE IF w.selfOutput.engine /\ w.startupPromise = "none"
       THEN [w EXCEPT !.log = Append(@, "CURRENCY_ENGINE_STARTED"),
                      !.engineStarted =
                         ReduceEngineStarted(@, "CURRENCY_ENGINE_STARTED"),
                      !.stateDirty = TRUE,
                      !.startupPromise = "scheduled",
                      !.tickDid = @ \cup {"startupPromise"}]
       ELSE w

\* Variant: the start is not guarded by selfState.engineStarted and the
\* startup promise.
engineStartedUpdate_restart(w) ==
  IF \/ ~HasSelfOutput(w.selfOutput)
     \/ ~w.selfOutput.api
     \/ ~fiatLoaded
     \/ ~fileNamesLoaded
  THEN w
  ELSE IF w.selfOutput.engine
       THEN [w EXCEPT !.log = Append(@, "CURRENCY_ENGINE_STARTED"),
                      !.engineStarted =
                         ReduceEngineStarted(@, "CURRENCY_ENGINE_STARTED"),
                      !.stateDirty = TRUE,
                      !.startupPromise = "scheduled",
                      !.tickDid = @ \cup {"startupPromise"}]
       ELSE w

\* Variant: the start is dispatched but startEngine is never scheduled.
engineStartedUpdate_noPromise(w) ==
  IF \/ ~HasSelfOutput(w.selfOutput)
     \/ ~w.selfOutput.api
     \/ ~fiatLoaded
     \/ ~fileNamesLoaded
     \/ w.engineStarted
  THEN w
  ELSE IF w.selfOutput.engine /\ w.startupPromise = "none"
       THEN [w EXCEPT !.log = Append(@, "CURRENCY_ENGINE_STARTED"),
                      !.engineStarted =
                         ReduceEngineStarted(@, "CURRENCY_ENGINE_STARTED"),
                      !.stateDirty = TRUE]
       ELSE w

\* engineStarted.update: starts the engine for this wallet.
engineStartedUpdate(w) ==
  IF \/ ~HasSelfOutput(w.selfOutput)
     \/ ~w.selfOutput.api
     \/ ~fiatLoaded
     \/ ~fileNamesLoaded
     \/ w.engineStarted
  THEN w
  ELSE IF w.selfOutput.engine /\ w.startupPromise = "none"
       THEN [w EXCEPT !.log = Append(@, "CURRENCY_ENGINE_STARTED"),
                      !.engineStarted =
                         ReduceEngineStarted(@, "CURRENCY_ENGINE_STARTED"),
                      !.stateDirty = TRUE,
                      !.startupPromise = "scheduled",
                      !.tickDid = @ \cup {"startupPromise"}]
       ELSE w

\* Variant: the task is started without looking at lastSync.
syncTimerUpdate_noLastSync(w) ==
  IF HasSelfOutput(w.selfOutput)
  THEN [TaskStart(w, TRUE) EXCEPT
          !.tickDid = @ \cup {"task.start"}
                        \cup (IF w.taskStarted THEN {} ELSE {"task.started"})]
  ELSE w

\* Variant: the task is started without the initial wait.
syncTimerUpdate_noWait(w) ==
  IF HasSelfOutput(w.selfOutput) /\ storageWallet /\ lastSync # 0
  THEN [TaskStart(w, FALSE) EXCEPT
          !.tickDid = @ \cup {"task.start"}
                        \cup (IF w.taskStarted THEN {} ELSE {"task.started"})]
  ELSE w

\* Variant: every update stops the task and starts it again.
syncTimerUpdate_restart(w) ==
  IF HasSelfOutput(w.selfOutput) /\ storageWallet /\ lastSync # 0
  THEN [w EXCEPT !.taskStarted = TRUE, !.timer = Interval,
                 !.tickDid = @ \cup {"task.start"}
                               \cup (IF w.taskStarted THEN {} ELSE {"task.started"})]
  ELSE w

\* syncTimer.update: starts the periodic sync once the initial sync is done.
syncTimerUpdate(w) ==
  IF HasSelfOutput(w.selfOutput) /\ storageWallet /\ lastSync # 0
  THEN [TaskStart(w, TRUE) EXCEPT
          !.tickDid = @ \cup {"task.start"}
                        \cup (IF w.taskStarted THEN {} ELSE {"task.started"})]
  ELSE w

\* Variant: the watcher does not remember the state it has seen.
watcher_noRemember(w) ==
  IF ~HasSelfOutput(w.selfOutput) THEN w
  ELSE
    LET w1 == IF w.stateDirty
              THEN [w EXCEPT !.tickDid = IF w.selfOutput.api
                                         THEN @ \cup {"update(api)"} ELSE @]
              ELSE w
    IN IF w1.lastSettings # userSettings
       THEN IF w1.selfOutput.engine
            THEN [w1 EXCEPT !.lastSettings = userSettings,
                            !.engineSettings = userSettings,
                            !.tickDid = @ \cup {"changeUserSettings"}]
            ELSE [w1 EXCEPT !.lastSettings = userSettings]
       ELSE w1

\* Variant: the watcher notifies the bridge without looking at the api
\* output.
watcher_noApiCheck(w) ==
  IF ~HasSelfOutput(w.selfOutput) THEN w
  ELSE
    LET w1 == IF w.stateDirty
              THEN [w EXCEPT !.stateDirty = FALSE,
                             !.tickDid = @ \cup {"update(api)"}]
              ELSE w
    IN IF w1.lastSettings # userSettings
       THEN IF w1.selfOutput.engine
            THEN [w1 EXCEPT !.lastSettings = userSettings,
                            !.engineSettings = userSettings,
                            !.tickDid = @ \cup {"changeUserSettings"}]
            ELSE [w1 EXCEPT !.lastSettings = userSettings]
       ELSE w1

\* Variant: the watcher pushes the settings into the engine on every tick.
watcher_pushAlways(w) ==
  IF ~HasSelfOutput(w.selfOutput) THEN w
  ELSE
    LET w1 == IF w.stateDirty
              THEN [w EXCEPT !.stateDirty = FALSE,
                             !.tickDid = IF w.selfOutput.api
                                         THEN @ \cup {"update(api)"} ELSE @]
              ELSE w
    IN IF w1.selfOutput.engine
       THEN [w1 EXCEPT !.lastSettings = userSettings,
                       !.engineSettings = userSettings,
                       !.tickDid = @ \cup {"changeUserSettings"}]
       ELSE [w1 EXCEPT !.lastSettings = userSettings]

\* watcher: republishes the api and pushes settings into the engine.
watcher(w) ==
  IF ~HasSelfOutput(w.selfOutput) THEN w
  ELSE
    LET w1 == IF w.stateDirty
              THEN [w EXCEPT !.stateDirty = FALSE,
                             !.tickDid = IF w.selfOutput.api
                                         THEN @ \cup {"update(api)"} ELSE @]
              ELSE w
    IN IF w1.lastSettings # userSettings
       THEN IF w1.selfOutput.engine
            THEN [w1 EXCEPT !.lastSettings = userSettings,
                            !.engineSettings = userSettings,
                            !.tickDid = @ \cup {"changeUserSettings"}]
            ELSE [w1 EXCEPT !.lastSettings = userSettings]
       ELSE w1

\* filterPixie: a paused tick gives the wrapped worker no update.
filterPixie(paused, w, updated) == IF paused THEN w ELSE updated

\* combinePixies: one re-evaluation of the group.
walletPixie(w) ==
  LET w1 == pluginPixie(w)
      w2 == enginePixie(w1)
      w3 == apiPixie(w2)
      w4 == filterPixie(PausedFilter, w3, engineStartedUpdate(w3))
      w5 == filterPixie(PausedFilter, w4, syncTimerUpdate(w4))
  IN watcher(w5)

Tick ==
  /\ ~destroyed
  /\ Len(log) < MaxLog
  /\ \E w \in {walletPixie(TickView)} :
       /\ selfOutput' = w.selfOutput
       /\ enginePc' = w.enginePc
       /\ apiDone' = w.apiDone
       /\ startupPromise' = w.startupPromise
       /\ engineStarted' = w.engineStarted
       /\ taskStarted' = w.taskStarted
       /\ timer' = w.timer
       /\ stateDirty' = w.stateDirty
       /\ lastSettings' = w.lastSettings
       /\ engineSettings' = w.engineSettings
       /\ tickDid' = w.tickDid
       /\ log' = w.log
  /\ UNCHANGED <<envVars, loadedVars, infoVars, capturedSettings,
                 derived, failedAt, staking, files, watching, killChain,
                 syncRunning, syncRejected, teardown>>

\* Variant: teardown chains killEngine whether or not a start was initiated.
engineStartedDestroy_always(out, promise, paused) ==
  IF ~HasSelfOutput(out) THEN "none"
  ELSE IF out.engine THEN "waiting"
  ELSE "none"

\* Variant: teardown of a paused wallet leaves the engine running.
engineStartedDestroy_skipPaused(out, promise, paused) ==
  IF ~HasSelfOutput(out) \/ paused THEN "none"
  ELSE IF out.engine /\ promise # "none" THEN "waiting"
  ELSE "none"

\* engineStarted.destroy: chains killEngine behind the startup promise.
engineStartedDestroy(out, promise, paused) ==
  IF ~HasSelfOutput(out) THEN "none"
  ELSE IF out.engine /\ promise # "none" THEN "waiting"
  ELSE "none"

\* makePeriodicTask(...).stop(): clears the started flag and the timeout.
TaskStop == [taskStarted |-> FALSE, timer |-> -1]

\* Variant: teardown leaves the periodic task running.
Destroy_noTaskStop ==
  /\ ~destroyed
  /\ teardown' = [done |-> TRUE, paused |-> PausedFilter,
                   during |-> startupPromise, gen |-> teardown.gen,
                   orphans |-> teardown.orphans]
  /\ killChain' = engineStartedDestroy(selfOutput, startupPromise, PausedFilter)
  /\ UNCHANGED <<envVars, loadedVars, engineStarted, infoVars,
                 selfOutput, engineVars, engineSettings, apiDone,
                 startupPromise, taskVars, stateDirty, lastSettings,
                 tickDid, log>>

\* Teardown of the group: engineStarted.destroy and syncTimer.destroy run
\* whatever the filters say.
Destroy ==
  /\ ~destroyed
  /\ teardown' = [done |-> TRUE, paused |-> PausedFilter,
                   during |-> startupPromise, gen |-> teardown.gen,
                   orphans |-> teardown.orphans]
  /\ killChain' = engineStartedDestroy(selfOutput, startupPromise, PausedFilter)
  /\ taskStarted' = TaskStop.taskStarted
  /\ timer' = TaskStop.timer
  /\ UNCHANGED <<envVars, loadedVars, engineStarted, infoVars,
                 selfOutput, engineVars, engineSettings, apiDone,
                 startupPromise, syncRunning, syncRejected, stateDirty,
                 lastSettings, tickDid, log>>

\* ------------------------------------------ the engine worker's async body
\* The catch block and the tail of the engine worker: report, then reload
\* the files, attach the change-watch and return stopUpdates.
\* Variant: the engine worker's update resolves to undefined.
EngineReturn_undefined == "idle"

\* The value the engine worker's update resolves to: stopUpdates.
EngineReturn == "done"

\* Variant: the catch block dispatches the failure without reporting it.
EngineCatch_noOnError(step, before) ==
  /\ failedAt' = step
  /\ log' = log \o before \o <<"CURRENCY_ENGINE_FAILED",
                               "loadAllFiles", "watchCurrencyWallet">>
  /\ files' = "loading"
  /\ watching' = TRUE
  /\ enginePc' = "done"
  /\ stateDirty' = TRUE

EngineCatch(step, before) ==
  /\ failedAt' = step
  /\ log' = log \o before \o <<"onError", "CURRENCY_ENGINE_FAILED",
                               "loadAllFiles", "watchCurrencyWallet">>
  /\ files' = "loading"
  /\ watching' = TRUE
  /\ enginePc' = EngineReturn
  /\ stateDirty' = TRUE

\* Key sets are sets of <<name, value>> pairs.
\* walletInfo.keys: the wallet's own keys, a private key among them.
WalletKeys == {<<"privateKey", "wallet">>, <<"publicKey", "wallet">>}

\* publicWalletInfo.keys: what derivePublicKey returned or the cache held.
PublicKeys(info) == IF info = "keys" THEN {<<"publicKey", "derived">>} ELSE {}

\* { ...a, ...b }: the keys of b win.
Overlay(a, b) == b \cup {p \in a : \A q \in b : q[1] # p[1]}

\* mergedWalletInfo.keys
mergedWalletInfo(info) == Overlay(WalletKeys, PublicKeys(info))

\* Variant: the event carries the merged record.
PublicInfoPayload_merged(info) == mergedWalletInfo(info)

\* The keys in the payload of CURRENCY_WALLET_PUBLIC_INFO.
PublicInfoPayload(info) == PublicKeys(info)

\* Variant: the factory is called before the public info is dispatched.
PublishAndMake_makeFirst(info) ==
  /\ publicWalletInfo' =
       ReducePublicWalletInfo(publicWalletInfo, "CURRENCY_WALLET_PUBLIC_INFO", info)
  /\ eventKeys' = PublicInfoPayload(info)
  /\ factoryKeys' = mergedWalletInfo(info)
  /\ log' = log \o <<"makeCurrencyEngine", "CURRENCY_WALLET_PUBLIC_INFO">>
  /\ enginePc' = "make"
  /\ stateDirty' = TRUE

\* Dispatch of the public info, then the call of the engine factory.
PublishAndMake(info) ==
  /\ publicWalletInfo' =
       ReducePublicWalletInfo(publicWalletInfo, "CURRENCY_WALLET_PUBLIC_INFO", info)
  /\ eventKeys' = PublicInfoPayload(info)
  /\ factoryKeys' = mergedWalletInfo(info)
  /\ log' = log \o <<"CURRENCY_WALLET_PUBLIC_INFO", "makeCurrencyEngine">>
  /\ enginePc' = "make"
  /\ stateDirty' = TRUE

\* Variant: a failed attach is reported and the try block goes on.
AttachFailed_continue ==
  /\ failedAt' = "attach"
  /\ log' = log \o <<"onError", "CURRENCY_ENGINE_FAILED">>
  /\ enginePc' = "tools"
  /\ stateDirty' = TRUE
  /\ UNCHANGED <<files, watching, storageWallet, lastSync, capturedSettings>>

\* addStorageWallet rejected: the rest of the try block is skipped.
AttachFailed ==
  /\ EngineCatch("attach", <<>>)
  /\ UNCHANGED <<storageWallet, lastSync, capturedSettings>>

\* await addStorageWallet(ai, walletInfo)
AttachDone ==
  /\ enginePc = "attach"
  /\ \/ /\ storageWallet' = TRUE
        /\ \E ls \in {lastSync, 1} : lastSync' = ls
        /\ capturedSettings' = userSettings
        /\ enginePc' = "tools"
        /\ UNCHANGED <<failedAt, files, watching, stateDirty, log>>
     \/ AttachFailed
  /\ UNCHANGED <<statePaused, selfPaused, pluginReady, userSettings, cacheFile,
                 loadedVars, engineStarted, infoVars, selfOutput,
                 engineSettings, derived, staking, apiDone, startupPromise,
                 killChain, taskVars, lastSettings, teardown, tickDid>>

\* await getCurrencyTools(ai, walletInfo.type), then getPublicWalletInfo
\* calls publicKeyFile.load
ToolsDone ==
  /\ enginePc = "tools"
  /\ \/ /\ enginePc' = "load"
        /\ log' = Append(log, "publicKeyFile.load")
        /\ UNCHANGED <<failedAt, files, watching, stateDirty>>
     \/ EngineCatch("tools", <<>>)
  /\ UNCHANGED <<envVars, loadedVars, engineStarted, infoVars,
                 selfOutput, capturedSettings, engineSettings, derived,
                 staking, apiDone, startupPromise, killChain, taskVars,
                 lastSettings, teardown, tickDid>>

\* Variant: the loaded cache is ignored and the keys are derived again.
CacheLoaded_rederive ==
  /\ enginePc = "load"
  /\ enginePc' = "derive"
  /\ log' = Append(log, "derivePublicKey")
  /\ UNCHANGED <<infoVars, stateDirty>>
  /\ UNCHANGED <<envVars, loadedVars, engineStarted, selfOutput,
                 capturedSettings, engineSettings, derived, failedAt, staking,
                 files, watching, apiDone, startupPromise, killChain, taskVars,
                 lastSettings, teardown, tickDid>>

\* getPublicWalletInfo: await publicKeyFile.load(disklet, PUBLIC_KEY_CACHE)
CacheLoaded ==
  /\ enginePc = "load"
  /\ IF cacheFile # "none"
     THEN PublishAndMake(cacheFile)
     ELSE /\ enginePc' = "derive"
          /\ log' = Append(log, "derivePublicKey")
          /\ UNCHANGED <<infoVars, stateDirty>>
  /\ UNCHANGED <<envVars, loadedVars, engineStarted, selfOutput,
                 capturedSettings, engineSettings, derived, failedAt, staking,
                 files, watching, apiDone, startupPromise, killChain, taskVars,
                 lastSettings, teardown, tickDid>>

\* Variant: a rejected derivation is not caught inside getPublicWalletInfo.
DeriveContinue_throw(r) ==
  IF r = "rejected"
  THEN /\ failedAt' = "derive"
       /\ log' = log \o <<"onError", "CURRENCY_ENGINE_FAILED",
                           "loadAllFiles", "watchCurrencyWallet">>
       /\ files' = "loading"
       /\ watching' = TRUE
       /\ enginePc' = "done"
       /\ stateDirty' = TRUE
       /\ UNCHANGED infoVars
  ELSE /\ IF r = "keys"
          THEN /\ enginePc' = "save"
               /\ log' = Append(log, "publicKeyFile.save")
               /\ UNCHANGED <<infoVars, stateDirty>>
          ELSE PublishAndMake("empty")
       /\ UNCHANGED <<failedAt, files, watching>>

\* Variant: the derived keys are never saved.
DeriveContinue_noSave(r) ==
  /\ PublishAndMake(IF r = "keys" THEN "keys" ELSE "empty")
  /\ UNCHANGED <<failedAt, files, watching>>

\* Variant: the cache file is saved whatever the derivation gave.
DeriveContinue_saveAlways(r) ==
  /\ enginePc' = "save"
  /\ log' = Append(log, "publicKeyFile.save")
  /\ UNCHANGED <<publicWalletInfo, eventKeys, factoryKeys, stateDirty>>
  /\ UNCHANGED <<failedAt, files, watching>>

\* getPublicWalletInfo after derivePublicKey settled with r: a rejection
\* leaves publicKeys = {}; only a non-empty key set is saved.
DeriveContinue(r) ==
  /\ IF r = "keys"
     THEN /\ enginePc' = "save"
          /\ log' = Append(log, "publicKeyFile.save")
          /\ UNCHANGED <<infoVars, stateDirty>>
     ELSE PublishAndMake("empty")
  /\ UNCHANGED <<failedAt, files, watching>>

\* getPublicWalletInfo: await tools.derivePublicKey(walletInfo), caught
DeriveDone ==
  /\ enginePc = "derive"
  /\ \E r \in {"keys", "empty", "rejected"} :
       /\ derived' = r
       /\ DeriveContinue(r)
  /\ UNCHANGED <<envVars, loadedVars, engineStarted, selfOutput,
                 capturedSettings, engineSettings, staking, apiDone,
                 startupPromise, killChain, taskVars, lastSettings, teardown,
                 tickDid>>

\* The wallet info written to the cache file: the keys just derived.
SavedInfo == IF derived = "keys" THEN "keys" ELSE "empty"

\* getPublicWalletInfo: await publicKeyFile.save(...)
SaveDone ==
  /\ enginePc = "save"
  /\ \/ /\ cacheFile' = SavedInfo
        /\ PublishAndMake(SavedInfo)
        /\ UNCHANGED <<failedAt, files, watching>>
     \/ /\ EngineCatch("save", <<>>)
        /\ UNCHANGED <<cacheFile, infoVars>>
  /\ UNCHANGED <<statePaused, selfPaused, pluginReady, storageWallet, lastSync,
                 userSettings, loadedVars, engineStarted, selfOutput,
                 capturedSettings, engineSettings, derived, staking, apiDone,
                 startupPromise, killChain, taskVars, lastSettings, teardown,
                 tickDid>>

EngineOut == [selfOutput EXCEPT !.engine = TRUE]

\* Variant: the engine output is published after the first snapshot.
EngineCreated_outputLast ==
  <<"CURRENCY_ENGINE_CHANGED_SEEDS", "CURRENCY_ENGINE_CHANGED_BALANCE",
    "CURRENCY_ENGINE_CHANGED_HEIGHT", "out:engine">>

\* What the worker emits, without an await in between, once the factory
\* has resolved and nothing throws.
EngineCreated ==
  <<"CURRENCY_ENGINE_CHANGED_SEEDS", "out:engine",
    "CURRENCY_ENGINE_CHANGED_BALANCE", "CURRENCY_ENGINE_CHANGED_HEIGHT">>

\* await plugin.makeCurrencyEngine(...) and the synchronous rest of the try
MakeDone ==
  /\ enginePc = "make"
  /\ \/ /\ EngineCatch("make", <<>>)
        /\ UNCHANGED <<selfOutput, engineSettings, staking>>
     \/ /\ EngineCatch("seeds", <<>>)
        /\ UNCHANGED <<selfOutput, staking>>
        /\ engineSettings' = capturedSettings
     \/ /\ EngineCatch("balance", <<"CURRENCY_ENGINE_CHANGED_SEEDS", "out:engine">>)
        /\ selfOutput' = EngineOut
        /\ engineSettings' = capturedSettings
        /\ UNCHANGED staking
     \/ /\ EngineCatch("staking", <<"CURRENCY_ENGINE_CHANGED_SEEDS", "out:engine",
                                    "CURRENCY_ENGINE_CHANGED_BALANCE",
                                    "CURRENCY_ENGINE_CHANGED_HEIGHT">>)
        /\ selfOutput' = EngineOut
        /\ engineSettings' = capturedSettings
        /\ UNCHANGED staking
     \/ /\ selfOutput' = EngineOut
        /\ engineSettings' = capturedSettings
        /\ \E st \in {"none", "pending"} : staking' = st
        /\ log' = log \o EngineCreated \o <<"loadAllFiles", "watchCurrencyWallet">>
        /\ files' = "loading"
        /\ watching' = TRUE
        /\ enginePc' = EngineReturn
        /\ stateDirty' = TRUE
        /\ UNCHANGED failedAt
  /\ UNCHANGED <<envVars, loadedVars, engineStarted, infoVars,
                 capturedSettings, derived, apiDone, startupPromise, killChain,
                 taskVars, lastSettings, teardown, tickDid>>

\* engine.getStakingStatus().then(...), with no rejection handler
StakingDone ==
  /\ staking = "pending"
  /\ \/ /\ staking' = "done"
        /\ log' = Append(log, "CURRENCY_ENGINE_CHANGED_STAKING")
        /\ stateDirty' = TRUE
     \/ /\ staking' = "unhandled"
        /\ UNCHANGED <<log, stateDirty>>
  /\ UNCHANGED <<envVars, loadedVars, engineStarted, infoVars,
                 selfOutput, enginePc, capturedSettings, engineSettings,
                 derived, failedAt, files, watching, apiDone, startupPromise,
                 killChain, taskVars, lastSettings, teardown, tickDid>>

\* loadAllFiles(input): one of the wallet's files is loaded and dispatched
FileLoaded ==
  /\ files = "loading"
  /\ \/ ~fiatLoaded /\ fiatLoaded' = TRUE /\ UNCHANGED <<nameLoaded, fileNamesLoaded>>
     \/ ~nameLoaded /\ nameLoaded' = TRUE /\ UNCHANGED <<fiatLoaded, fileNamesLoaded>>
     \/ ~fileNamesLoaded /\ fileNamesLoaded' = TRUE /\ UNCHANGED <<fiatLoaded, nameLoaded>>
  /\ stateDirty' = TRUE
  /\ UNCHANGED <<envVars, engineStarted, infoVars, selfOutput,
                 engineVars, engineSettings, apiDone, startupPromise,
                 killChain, taskVars, lastSettings, teardown, tickDid, log>>

\* Variant: a failed reload rolls the engine back.
FilesSettle_rollback ==
  /\ files = "loading"
  /\ \/ /\ fiatLoaded /\ nameLoaded /\ fileNamesLoaded
        /\ files' = "done"
        /\ UNCHANGED <<log, selfOutput, failedAt, stateDirty>>
     \/ /\ files' = "failed"
        /\ log' = log \o <<"onError", "CURRENCY_ENGINE_FAILED">>
        /\ selfOutput' = [selfOutput EXCEPT !.engine = FALSE]
        /\ failedAt' = "files"
        /\ stateDirty' = TRUE
  /\ UNCHANGED <<envVars, loadedVars, engineStarted, infoVars,
                 enginePc, capturedSettings, engineSettings,
                 derived, staking, watching, apiDone, startupPromise,
                 killChain, taskVars, lastSettings, teardown,
                 tickDid>>

\* loadAllFiles(input).catch(e => input.props.onError(e))
FilesSettle ==
  /\ files = "loading"
  /\ \/ /\ fiatLoaded /\ nameLoaded /\ fileNamesLoaded
        /\ files' = "done"
        /\ UNCHANGED log
     \/ /\ files' = "failed"
        /\ log' = Append(log, "onError")
  /\ UNCHANGED <<envVars, loadedVars, engineStarted, infoVars,
                 selfOutput, enginePc, capturedSettings, engineSettings,
                 derived, failedAt, staking, watching, apiDone, startupPromise,
                 killChain, taskVars, stateDirty, lastSettings, teardown,
                 tickDid>>

\* ------------------------------------------------ start and stop of the engine
\* Promise.resolve().then(() => engine.startEngine()): the call itself; a
\* synchronous throw becomes a rejection handled by the catch.
StartEngineCall ==
  /\ startupPromise = "scheduled"
  /\ \/ /\ startupPromise' = "running"
        /\ log' = Append(log, "startEngine")
     \/ /\ startupPromise' = "settled"
        /\ log' = log \o <<"startEngine", "onError:startEngine">>
  /\ UNCHANGED <<envVars, loadedVars, engineStarted, infoVars,
                 selfOutput, engineVars, engineSettings, apiDone, killChain,
                 taskVars, stateDirty, lastSettings, teardown, tickDid>>

\* Variant: a rejected start is reported and the engine marked stopped.
StartSettle_retract ==
  /\ startupPromise = "running"
  /\ startupPromise' = "settled"
  /\ \/ UNCHANGED <<log, engineStarted, stateDirty>>
     \/ /\ log' = log \o <<"onError:startEngine", "CURRENCY_ENGINE_STOPPED">>
        /\ engineStarted' = ReduceEngineStarted(engineStarted, "CURRENCY_ENGINE_STOPPED")
        /\ stateDirty' = TRUE
  /\ UNCHANGED <<envVars, loadedVars, infoVars,
                 selfOutput, engineVars, engineSettings, apiDone, killChain,
                 taskVars, lastSettings, teardown, tickDid>>

\* The promise of startEngine settles; .catch(e => input.props.onError(e))
StartSettle ==
  /\ startupPromise = "running"
  /\ startupPromise' = "settled"
  /\ \/ UNCHANGED log
     \/ log' = Append(log, "onError:startEngine")
  /\ UNCHANGED <<envVars, loadedVars, engineStarted, infoVars,
                 selfOutput, engineVars, engineSettings, apiDone, killChain,
                 taskVars, stateDirty, lastSettings, teardown, tickDid>>

\* Variant: a rejected killEngine ends the chain without the dispatch.
DispatchStopped_onlyOnSuccess(before) ==
  IF before # <<>> /\ before[Len(before)] = "onError:killEngine"
  THEN /\ killChain' = "done"
       /\ log' = log \o before
       /\ UNCHANGED <<engineStarted, stateDirty>>
  ELSE /\ killChain' = "done"
       /\ log' = log \o before \o <<"CURRENCY_ENGINE_STOPPED">>
       /\ engineStarted' = ReduceEngineStarted(engineStarted, "CURRENCY_ENGINE_STOPPED")
       /\ stateDirty' = TRUE

\* The ".then(dispatch CURRENCY_ENGINE_STOPPED)" link of the destroy chain.
DispatchStopped(before) ==
  /\ killChain' = "done"
  /\ log' = log \o before \o <<"CURRENCY_ENGINE_STOPPED">>
  /\ engineStarted' = ReduceEngineStarted(engineStarted, "CURRENCY_ENGINE_STOPPED")
  /\ stateDirty' = TRUE

\* Variant: killEngine does not wait for the startup promise.
KillAllowed_nowait == TRUE

\* startupPromise.then(() => engine.killEngine())
KillAllowed == startupPromise = "settled"

KillCall ==
  /\ killChain = "waiting"
  /\ KillAllowed
  /\ \/ /\ killChain' = "running"
        /\ log' = Append(log, "killEngine")
        /\ UNCHANGED <<engineStarted, stateDirty>>
     \/ DispatchStopped(<<"killEngine", "onError:killEngine">>)
  /\ UNCHANGED <<envVars, loadedVars, infoVars, selfOutput, engineVars,
                 engineSettings, apiDone, startupPromise, taskVars,
                 lastSettings, teardown, tickDid>>

\* The promise of killEngine settles; .catch(onError).then(dispatch stopped)
KillSettle ==
  /\ killChain = "running"
  /\ \/ DispatchStopped(<<>>)
     \/ DispatchStopped(<<"onError:killEngine">>)
  /\ UNCHANGED <<envVars, loadedVars, infoVars, selfOutput, engineVars,
                 engineSettings, apiDone, startupPromise, taskVars,
                 lastSettings, teardown, tickDid>>

\* ---------------------------------------------------------- periodic task
\* One clock step passes while the timeout is pending.
ClockStep ==
  /\ timer > 0
  /\ timer' = timer - 1
  /\ UNCHANGED <<envVars, loadedVars, engineStarted, infoVars,
                 selfOutput, engineVars, engineSettings, apiDone,
                 startupPromise, killChain, taskStarted, syncRunning,
                 syncRejected, stateDirty, lastSettings, teardown, tickDid,
                 log>>

\* The timeout fires: doSync() is invoked.
TimerFire ==
  /\ timer = 0
  /\ timer' = -1
  /\ syncRunning' = syncRunning + 1
  /\ UNCHANGED <<envVars, loadedVars, engineStarted, infoVars,
                 selfOutput, engineVars, engineSettings, apiDone,
                 startupPromise, killChain, taskStarted, syncRejected,
                 stateDirty, lastSettings, teardown, tickDid, log>>

\* doSync resolves; the next run is one interval away.
SyncSettle ==
  /\ syncRunning > 0
  /\ syncRunning' = syncRunning - 1
  /\ syncRejected' = FALSE
  /\ timer' = IF taskStarted THEN Interval ELSE timer
  /\ UNCHANGED <<envVars, loadedVars, engineStarted, infoVars,
                 selfOutput, engineVars, engineSettings, apiDone,
                 startupPromise, killChain, taskStarted, stateDirty,
                 lastSettings, teardown, tickDid, log>>

\* Variant: the task reports a rejected doSync to the error channel and
\* stops.
SyncReject_report ==
  /\ syncRunning > 0
  /\ syncRunning' = syncRunning - 1
  /\ syncRejected' = TRUE
  /\ taskStarted' = FALSE
  /\ log' = Append(log, "onError")
  /\ UNCHANGED <<envVars, loadedVars, engineStarted, infoVars,
                 selfOutput, engineVars, engineSettings, apiDone,
                 startupPromise, killChain, timer, stateDirty,
                 lastSettings, teardown, tickDid>>

\* doSync rejects (syncStorageWallet failed): the task swallows the failure
\* and goes on as after a run that resolved.
SyncReject ==
  /\ syncRunning > 0
  /\ syncRunning' = syncRunning - 1
  /\ syncRejected' = TRUE
  /\ timer' = IF taskStarted THEN Interval ELSE timer
  /\ UNCHANGED <<envVars, loadedVars, engineStarted, infoVars,
                 selfOutput, engineVars, engineSettings, apiDone,
                 startupPromise, killChain, taskStarted, stateDirty,
                 lastSettings, teardown, tickDid, log>>

\* ------------------------------------------------------------ environment
\* The wallet is paused or resumed (changePaused on the wallet); nothing
\* reads the flag of a wallet that has been torn down.
SetSelfPaused ==
  /\ ~destroyed
  /\ selfPaused' = ~selfPaused
  /\ stateDirty' = TRUE
  /\ UNCHANGED <<statePaused, pluginReady, storageWallet, lastSync,
                 userSettings, cacheFile, loadedVars, engineStarted,
                 infoVars, selfOutput, engineVars, engineSettings,
                 apiDone, startupPromise, killChain, taskVars, lastSettings,
                 teardown, tickDid, log>>

\* The whole context is paused or resumed.
SetStatePaused ==
  /\ ~destroyed
  /\ statePaused' = ~statePaused
  /\ UNCHANGED <<selfPaused, pluginReady, storageWallet, lastSync,
                 userSettings, cacheFile, loadedVars, engineStarted,
                 infoVars, selfOutput, engineVars, engineSettings,
                 apiDone, startupPromise, killChain, taskVars, stateDirty,
                 lastSettings, teardown, tickDid, log>>

\* The plugin for the wallet type finishes loading.
PluginResolved ==
  /\ ~pluginReady
  /\ pluginReady' = TRUE
  /\ UNCHANGED <<statePaused, selfPaused, storageWallet, lastSync,
                 userSettings, cacheFile, loadedVars, engineStarted,
                 infoVars, selfOutput, engineVars, engineSettings,
                 apiDone, startupPromise, killChain, taskVars, stateDirty,
                 lastSettings, teardown, tickDid, log>>

\* The storage wallet completes its initial sync.
InitialSync ==
  /\ storageWallet
  /\ lastSync = 0
  /\ lastSync' = 1
  /\ UNCHANGED <<statePaused, selfPaused, pluginReady, storageWallet,
                 userSettings, cacheFile, loadedVars, engineStarted,
                 infoVars, selfOutput, engineVars, engineSettings,
                 apiDone, startupPromise, killChain, taskVars, stateDirty,
                 lastSettings, teardown, tickDid, log>>

\* The user changes the settings of this plugin.
SettingsChanged ==
  /\ userSettings < MaxSettings
  /\ userSettings' = userSettings + 1
  /\ UNCHANGED <<statePaused, selfPaused, pluginReady, storageWallet, lastSync,
                 cacheFile, loadedVars, engineStarted, infoVars,
                 selfOutput, engineVars, engineSettings, apiDone,
                 startupPromise, killChain, taskVars, stateDirty, lastSettings,
                 teardown, tickDid, log>>

\* The wallet's name becomes unavailable again (an input the api worker
\* may be re-evaluated with).
NameUnloaded ==
  /\ nameLoaded
  /\ nameLoaded' = FALSE
  /\ stateDirty' = TRUE
  /\ UNCHANGED <<envVars, fiatLoaded, fileNamesLoaded, engineStarted,
                 infoVars, selfOutput, engineVars, engineSettings,
                 apiDone, startupPromise, killChain, taskVars, lastSettings,
                 teardown, tickDid, log>>

\* ---------------------------------------------------------- specification
Next ==
  \/ Tick
  \/ Destroy
  \/ AttachDone
  \/ ToolsDone
  \/ CacheLoaded
  \/ DeriveDone
  \/ SaveDone
  \/ MakeDone
  \/ StakingDone
  \/ FileLoaded
  \/ FilesSettle
  \/ StartEngineCall
  \/ StartSettle
  \/ KillCall
  \/ KillSettle
  \/ ClockStep
  \/ TimerFire
  \/ SyncSettle
  \/ SetSelfPaused
  \/ SetStatePaused
  \/ PluginResolved
  \/ InitialSync

Spec == Init /\ [][Next]_vars

\* The same program when every promise callback that is ready runs and the
\* engine's startEngine and killEngine settle.
SpecLive ==
  /\ Init
  /\ [][Next]_vars
  /\ WF_vars(StartEngineCall)
  /\ WF_vars(StartSettle)
  /\ WF_vars(KillCall)
  /\ WF_vars(KillSettle)

\* publicKeyFile.load gives undefined although the file exists (it cannot be
\* read or does not parse): getPublicWalletInfo derives the keys again.
CacheMiss ==
  /\ enginePc = "load"
  /\ cacheFile # "none"
  /\ enginePc' = "derive"
  /\ log' = Append(log, "derivePublicKey")
  /\ UNCHANGED <<envVars, loadedVars, engineStarted, infoVars, selfOutput,
                 capturedSettings, engineSettings, derived, failedAt, staking,
                 files, watching, apiDone, startupPromise, killChain, taskVars,
                 stateDirty, lastSettings, teardown, tickDid>>

\* Nothing of the torn-down generation is still in flight.
Quiescent ==
  /\ enginePc \in {"idle", "done"}
  /\ staking # "pending"
  /\ files # "loading"
  /\ killChain \in {"none", "done"}
  /\ syncRunning = 0

\* A new generation: fresh self state, output and workers (a new periodic
\* task among them); the disk, the storage wallets, the plugins and the
\* settings are what they were.
NewGeneration(orphans) ==
  /\ teardown' = [done |-> FALSE, paused |-> FALSE, during |-> "none",
                   gen |-> teardown.gen + 1, orphans |-> orphans]
  /\ engineStarted' = FALSE
  /\ fiatLoaded' = FALSE
  /\ fileNamesLoaded' = FALSE
  /\ nameLoaded' = FALSE
  /\ publicWalletInfo' = "none"
  /\ eventKeys' = {}
  /\ factoryKeys' = {}
  /\ selfOutput' = [plugin |-> FALSE, engine |-> FALSE, api |-> FALSE]
  /\ enginePc' = "idle"
  /\ capturedSettings' = -1
  /\ engineSettings' = -1
  /\ derived' = "none"
  /\ failedAt' = ""
  /\ staking' = "none"
  /\ files' = "none"
  /\ watching' = FALSE
  /\ apiDone' = FALSE
  /\ startupPromise' = "none"
  /\ killChain' = "none"
  /\ taskStarted' = FALSE
  /\ timer' = -1
  /\ syncRunning' = 0
  /\ syncRejected' = FALSE
  /\ stateDirty' = TRUE
  /\ lastSettings' = -1
  /\ tickDid' = {}
  /\ log' = <<>>
  /\ UNCHANGED envVars

\* The parent builds the worker group anew after a teardown.
Rebuild ==
  /\ destroyed
  /\ Quiescent
  /\ teardown.gen < MaxGen
  /\ NewGeneration(teardown.orphans)

\* The program over several generations of one wallet, with a key cache
\* that may fail to load.
NextCache == Next \/ CacheMiss \/ Rebuild

SpecCache == Init /\ [][NextCache]_vars

\* The same program when the inputs of the api worker may also be withdrawn.
NextRevert == Next \/ NameUnloaded

SpecRevert == Init /\ [][NextRevert]_vars

\* The program when the user may change the plugin's settings at any
\* moment; each wallet keeps the pause flags it starts with (no worker that
\* touches the settings looks at them).
NextSettings ==
  \/ Tick
  \/ Destroy
  \/ AttachDone
  \/ ToolsDone
  \/ CacheLoaded
  \/ DeriveDone
  \/ SaveDone
  \/ MakeDone
  \/ StakingDone
  \/ FileLoaded
  \/ FilesSettle
  \/ StartEngineCall
  \/ StartSettle
  \/ KillCall
  \/ KillSettle
  \/ ClockStep
  \/ TimerFire
  \/ SyncSettle
  \/ PluginResolved
  \/ InitialSync
  \/ SettingsChanged

SpecSettings == Init /\ [][NextSettings]_vars

\* The same program when the periodic sync may fail.
NextSync == Next \/ SyncReject

SpecSync == Init /\ [][NextSync]_vars

\* The parent builds the group anew while a doSync of the generation
\* just torn down is still in flight (stop() does not wait for it).
RebuildEarly ==
  /\ destroyed
  /\ enginePc \in {"idle", "done"}
  /\ staking # "pending"
  /\ files # "loading"
  /\ killChain \in {"none", "done"}
  /\ syncRunning > 0
  /\ teardown.gen < MaxGen
  /\ NewGeneration(teardown.orphans + syncRunning)

\* A doSync of an earlier generation settles: its task is stopped and
\* schedules nothing.
OrphanSettle ==
  /\ teardown.orphans > 0
  /\ teardown' = [teardown EXCEPT !.orphans = @ - 1]
  /\ UNCHANGED <<envVars, loadedVars, engineStarted, infoVars, selfOutput,
                 engineVars, engineSettings, apiDone, startupPromise,
                 killChain, taskVars, stateDirty, lastSettings, tickDid, log>>

\* The program over the generations of one wallet when a teardown does not
\* wait for the sync in flight.
NextRestart == Next \/ RebuildEarly \/ OrphanSettle

SpecRestart == Init /\ [][NextRestart]_vars

\* What engineStarted.update and the workers before it wait for is there,
\* the wallet is not paused and no start has been made.
StartDue ==
  /\ ~PausedFilter
  /\ selfOutput.plugin
  /\ selfOutput.engine
  /\ publicWalletInfo # "none"
  /\ nameLoaded
  /\ fiatLoaded
  /\ fileNamesLoaded
  /\ ~engineStarted
  /\ startupPromise = "none"

\* The same program under fair scheduling: the re-evaluation that a due
\* start is waiting for takes place, and the scheduled call of startEngine
\* runs.
SpecFair ==
  /\ Init
  /\ [][Next]_vars
  /\ WF_vars(StartDue /\ Tick)
  /\ WF_vars(StartEngineCall)

\* ------------------------------------------------------------------ claims
Started == "CURRENCY_ENGINE_STARTED"
Stopped == "CURRENCY_ENGINE_STOPPED"
Failed  == "CURRENCY_ENGINE_FAILED"

\* The four preconditions of the api output.
ApiInputs ==
  /\ selfOutput.plugin
  /\ selfOutput.engine
  /\ publicWalletInfo # "none"
  /\ nameLoaded

\* C1: killEngine is invoked only after the promise of the one startEngine
\* call has settled, also when destroy came while the start was in flight;
\* startEngine and killEngine are never in flight together.
C1_KillAfterStartSettled ==
  /\ killChain \in {"running", "done"} => startupPromise = "settled"
  /\ Count(log, "killEngine") > 0 => startupPromise = "settled"
  /\ ~(startupPromise = "running" /\ killChain = "running")

\* Destroy found the start scheduled or in flight, and killEngine has run.
C1_Witness ==
  /\ teardown.done
  /\ teardown.during \in {"scheduled", "running"}
  /\ Count(log, "killEngine") = 1

\* C2: makeCurrencyEngine is invoked at most once in a generation, whatever
\* the ticks, so at most one engine is ever published.
C2_OneEngine ==
  /\ Count(log, "makeCurrencyEngine") <= 1
  /\ Count(log, "out:engine") <= 1

\* A tick has run while the factory call was pending.
C2_Witness ==
  /\ enginePc = "make"
  /\ Count(log, "makeCurrencyEngine") = 1
  /\ ~stateDirty
  /\ ~destroyed

\* C3: the api output appears only in a tick that finds plugin, engine,
\* publicWalletInfo and nameLoaded all present; no state has the api without
\* them.
C3_ApiOnlyWhenComplete ==
  /\ [](selfOutput.api =>
          /\ selfOutput.plugin
          /\ selfOutput.engine
          /\ publicWalletInfo # "none"
          /\ nameLoaded)
  /\ [][(~selfOutput.api /\ selfOutput'.api) =>
          /\ Tick
          /\ selfOutput'.plugin
          /\ selfOutput.engine
          /\ publicWalletInfo # "none"
          /\ nameLoaded]_vars

\* The api has been published.
C3_Witness == selfOutput.api /\ Count(log, "out:api") = 1

\* C4 as stated: after every tick the api output is present exactly when the
\* four preconditions hold, so it is withdrawn when one of them goes away.
C4_Original ==
  [][Tick => (selfOutput'.api <=> ApiInputs')]_vars

\* C4 amended: a tick publishes the api exactly when the four preconditions
\* hold, and a published api stays, whatever happens to them afterwards.
C4_ApiPublishedOnceAndKept ==
  [][Tick => (selfOutput'.api <=> (selfOutput.api \/ ApiInputs'))]_vars

\* A tick has run with the api published and the name no longer loaded.
C4_Witness ==
  /\ selfOutput.api
  /\ ~nameLoaded
  /\ ~stateDirty
  /\ ~destroyed

\* C5: in one generation CURRENCY_ENGINE_STARTED is dispatched and
\* startEngine is invoked at most once, and engineStarted turns true only
\* with that one dispatch.
C5_StartOnce ==
  /\ [](Count(log, Started) <= 1 /\ Count(log, "startEngine") <= 1)
  /\ [][(~engineStarted /\ engineStarted') =>
          (Count(log, Started) = 0 /\ Count(log', Started) = 1)]_vars

\* An unpaused tick has run after the start settled, and started nothing.
C5_Witness ==
  /\ Count(log, "startEngine") = 1
  /\ startupPromise = "settled"
  /\ "task.start" \in tickDid
  /\ "startupPromise" \notin tickDid
  /\ ~destroyed

\* C6: outputs once published stay published, nothing kills or stops the
\* engine before teardown (so no paused tick does), and teardown of a started
\* engine chains killEngine whether or not the wallet is paused.
C6_PauseKeepsEngine ==
  [][/\ selfOutput.engine => selfOutput'.engine
     /\ selfOutput.api => selfOutput'.api
     /\ ~teardown'.done =>
          /\ killChain' = "none"
          /\ Count(log', "killEngine") = 0
          /\ Count(log', Stopped) = 0
     /\ (~teardown.done /\ teardown'.done /\ startupPromise # "none") =>
          killChain' = "waiting"]_vars

\* A started, paused wallet was torn down and killEngine has run.
C6_Witness ==
  /\ teardown.done
  /\ teardown.paused
  /\ Count(log, "killEngine") = 1
  /\ selfOutput.engine
  /\ selfOutput.api

\* C7: a tick on which state.paused or selfState.paused holds starts
\* nothing: no startup promise, no CURRENCY_ENGINE_STARTED, no task start.
C7_PausedTickStartsNothing ==
  [][(Tick /\ (statePaused \/ selfPaused)) =>
       /\ startupPromise' = startupPromise
       /\ engineStarted' = engineStarted
       /\ Count(log', Started) = Count(log, Started)
       /\ taskStarted' = taskStarted
       /\ timer' = timer
       /\ tickDid' \cap {"startupPromise", "task.start", "task.started"} = {}]_vars

\* A paused tick has run with every other start precondition satisfied.
C7_Witness ==
  /\ selfPaused
  /\ ~stateDirty
  /\ ~destroyed
  /\ selfOutput.api
  /\ fiatLoaded
  /\ fileNamesLoaded
  /\ ~engineStarted
  /\ startupPromise = "none"
  /\ lastSync # 0
  /\ ~taskStarted

\* C8: the periodic task is never started while lastSync is unset; an
\* unpaused tick with lastSync set starts it, with the full interval to wait
\* and no immediate sync.
C8_SyncStartsAfterLastSync ==
  /\ [](taskStarted => lastSync # 0)
  /\ [][(~taskStarted /\ taskStarted') =>
          /\ Tick
          /\ lastSync # 0
          /\ timer' = Interval
          /\ syncRunning' = syncRunning]_vars
  /\ [][(Tick /\ ~(statePaused \/ selfPaused) /\ storageWallet /\ lastSync # 0) =>
          taskStarted']_vars

\* The task has just been started by a tick and waits one interval.
C8_Witness ==
  /\ "task.started" \in tickDid
  /\ taskStarted
  /\ timer = Interval
  /\ syncRunning = 0
  /\ lastSync # 0

\* C9: when the engine factory rejects, exactly one CURRENCY_ENGINE_FAILED is
\* dispatched, right after the error went to onError; the plugin output
\* stays and no engine (or api) output appears.
C9_FactoryRejection ==
  failedAt = "make" =>
    /\ Count(log, Failed) = 1
    /\ IndexOf(log, Failed) > 1
    /\ log[IndexOf(log, Failed) - 1] = "onError"
    /\ selfOutput.plugin
    /\ ~selfOutput.engine
    /\ ~selfOutput.api

\* The factory rejected and a tick has run since.
C9_Witness ==
  /\ failedAt = "make"
  /\ ~stateDirty
  /\ ~destroyed

\* C10: a rejected derivePublicKey with no cache is swallowed: the next
\* thing the worker does is publish publicWalletInfo with empty keys and call
\* the factory; nothing is cached, no failure is reported for it, and the api
\* and the start follow on the ticks that find their other preconditions.
C10_DeriveFailureSwallowed ==
  /\ [](derived = "rejected" =>
          /\ publicWalletInfo = "empty"
          /\ cacheFile = "none"
          /\ Count(log, "makeCurrencyEngine") = 1
          /\ log[IndexOf(log, "derivePublicKey") + 1] = "CURRENCY_WALLET_PUBLIC_INFO"
          /\ failedAt # "derive"
          /\ (Count(log, Failed) > 0 <=> failedAt # ""))
  /\ [][(Tick /\ derived = "rejected" /\ selfOutput.engine /\ nameLoaded) =>
          selfOutput'.api]_vars
  /\ [][(Tick /\ derived = "rejected" /\ ~(statePaused \/ selfPaused)
              /\ selfOutput'.api /\ fiatLoaded /\ fileNamesLoaded) =>
          startupPromise' # "none"]_vars

\* Derivation failed, yet the api is published and the engine was started.
C10_Witness ==
  /\ derived = "rejected"
  /\ publicWalletInfo = "empty"
  /\ failedAt = ""
  /\ selfOutput.api
  /\ Count(log, "startEngine") = 1

\* a comes before b in the log whenever b is in it.
Before(a, b) ==
  LET ia == IndexOf(log, a)
      ib == IndexOf(log, b)
  IN ib > 0 => (ia > 0 /\ ia < ib)

\* C12: re-evaluating the group right after a tick, with nothing changed in
\* between, has no effect: no dispatch, output, call, notification or timer;
\* the only thing repeated is the call of task.start on a started task.
C12_TickIdempotent ==
  ~destroyed =>
    LET w1 == walletPixie(TickView)
        w2 == walletPixie([w1 EXCEPT !.tickDid = {}])
    IN /\ [w2 EXCEPT !.tickDid = {}] = [w1 EXCEPT !.tickDid = {}]
       /\ w2.tickDid \subseteq {"task.start"}

\* A tick has just started the engine and the task; one more changes nothing.
C12_Witness ==
  /\ ~destroyed
  /\ "startupPromise" \in tickDid
  /\ startupPromise = "scheduled"
  /\ taskStarted
  /\ walletPixie(TickView).log = log

\* C13: killEngine runs at most once, only after teardown of a generation
\* that initiated a start; CURRENCY_ENGINE_STOPPED is dispatched once, after
\* killEngine, when the chain completes; teardown without a start does
\* neither.
C13_TeardownKillsStartedEngine ==
  /\ Count(log, "killEngine") <= 1
  /\ Count(log, Stopped) <= 1
  /\ Count(log, "killEngine") > 0 =>
       (destroyed /\ Count(log, Started) = 1 /\ selfOutput.engine)
  /\ Before("killEngine", Stopped)
  /\ (killChain = "done") <=> (Count(log, Stopped) = 1)
  /\ (killChain \in {"running", "done"}) <=> (Count(log, "killEngine") = 1)
  /\ (destroyed /\ startupPromise = "none") =>
       (killChain = "none" /\ Count(log, "killEngine") = 0 /\ Count(log, Stopped) = 0)
  /\ (destroyed /\ startupPromise # "none") => killChain # "none"

\* The teardown chain of a started engine has run to its end.
C13_Witness ==
  /\ killChain = "done"
  /\ Count(log, "killEngine") = 1
  /\ Count(log, Stopped) = 1
  /\ IndexOf(log, Started) < IndexOf(log, "killEngine")

\* C15: after a failed storage attach or a rejected factory the generation
\* stays failed: the engine worker has stopped, neither call is repeated, no
\* engine or api output appears and the engine is never started.
C15_FailedStaysFailed ==
  failedAt \in {"attach", "make"} =>
    /\ enginePc = "done"
    /\ Count(log, "addStorageWallet") = 1
    /\ Count(log, "makeCurrencyEngine") = (IF failedAt = "make" THEN 1 ELSE 0)
    /\ Count(log, Failed) = 1
    /\ ~selfOutput.engine
    /\ ~selfOutput.api
    /\ startupPromise = "none"
    /\ Count(log, "startEngine") = 0

\* The attach failed, every file got loaded and a tick has run since.
C15_Witness ==
  /\ failedAt = "attach"
  /\ fiatLoaded /\ fileNamesLoaded /\ nameLoaded
  /\ ~stateDirty
  /\ ~destroyed

\* C16: the plugin output precedes the factory call, the engine output the
\* api output, and the api output the start; api implies engine implies
\* plugin, and an initiated start implies the api.
C16_PublicationOrder ==
  /\ selfOutput.api => selfOutput.engine
  /\ selfOutput.engine => selfOutput.plugin
  /\ startupPromise # "none" => selfOutput.api
  /\ Before("out:plugin", "makeCurrencyEngine")
  /\ Before("makeCurrencyEngine", "out:engine")
  /\ Before("out:engine", "out:api")
  /\ Before("out:api", Started)
  /\ Before(Started, "startEngine")

\* A whole generation in order, up to the call of startEngine.
C16_Witness ==
  /\ IndexOf(log, "out:plugin") = 1
  /\ IndexOf(log, "startEngine") > IndexOf(log, "out:api")
  /\ IndexOf(log, "out:api") > IndexOf(log, "out:engine")
  /\ IndexOf(log, "out:engine") > IndexOf(log, "makeCurrencyEngine")

\* C17 as stated: the periodic task is never started while the api output
\* is absent.
C17_Original == taskStarted => selfOutput.api

\* C17 amended: the task is started only by an unpaused tick that has the plugin
\* output, the storage wallet and lastSync; the api need not be there.
C17_SyncGatedByStorageOnly ==
  [][(~taskStarted /\ taskStarted') =>
       /\ Tick
       /\ selfOutput'.plugin
       /\ ~(statePaused \/ selfPaused)
       /\ storageWallet
       /\ lastSync # 0]_vars

\* The task is started and no api has been published.
C17_Witness ==
  /\ taskStarted
  /\ ~selfOutput.api
  /\ ~selfOutput.engine

\* C18: a start is initiated only by an unpaused tick that has the api and
\* finds fiatLoaded, fileNamesLoaded and engineStarted = false; the dispatch
\* of CURRENCY_ENGINE_STARTED comes before the call, one per start.
C18_StartPreconditions ==
  /\ [][(startupPromise = "none" /\ startupPromise' # "none") =>
          /\ Tick
          /\ ~(statePaused \/ selfPaused)
          /\ selfOutput'.api
          /\ selfOutput.engine
          /\ fiatLoaded
          /\ fileNamesLoaded
          /\ ~engineStarted
          /\ Count(log', Started) = Count(log, Started) + 1]_vars
  /\ [](/\ Before(Started, "startEngine")
        /\ Count(log, "startEngine") <= Count(log, Started)
        /\ (startupPromise = "none") <=> (Count(log, Started) = 0))

\* The start has just been initiated: dispatched, not yet called.
C18_Witness ==
  /\ startupPromise = "scheduled"
  /\ Count(log, Started) = 1
  /\ Count(log, "startEngine") = 0
  /\ engineStarted

\* C19: CURRENCY_WALLET_PUBLIC_INFO is dispatched before the factory is
\* called, and a rejection of the factory leaves publicWalletInfo published.
C19_PublicInfoBeforeFactory ==
  /\ Before("CURRENCY_WALLET_PUBLIC_INFO", "makeCurrencyEngine")
  /\ Count(log, "makeCurrencyEngine") > 0 => publicWalletInfo # "none"
  /\ failedAt = "make" =>
       /\ publicWalletInfo # "none"
       /\ IndexOf(log, "CURRENCY_WALLET_PUBLIC_INFO") < IndexOf(log, Failed)

\* The factory rejected with the public info already published.
C19_Witness ==
  /\ failedAt = "make"
  /\ publicWalletInfo = "keys"
  /\ Count(log, "CURRENCY_WALLET_PUBLIC_INFO") = 1

\* C14: a failed storage attach is reported through onError and one
\* CURRENCY_ENGINE_FAILED; in that generation the key cache is neither read
\* nor written, derivePublicKey and the factory are never called, no
\* CURRENCY_WALLET_PUBLIC_INFO is dispatched and there is no engine output.
C14_AttachFailure ==
  failedAt = "attach" =>
    /\ Count(log, Failed) = 1
    /\ log[IndexOf(log, Failed) - 1] = "onError"
    /\ log[IndexOf(log, Failed) - 2] = "addStorageWallet"
    /\ Count(log, "publicKeyFile.load") = 0
    /\ Count(log, "publicKeyFile.save") = 0
    /\ Count(log, "derivePublicKey") = 0
    /\ Count(log, "makeCurrencyEngine") = 0
    /\ Count(log, "CURRENCY_WALLET_PUBLIC_INFO") = 0
    /\ derived = "none"
    /\ publicWalletInfo = "none"
    /\ ~selfOutput.engine

\* The attach failed in a wallet whose key cache exists; the cache stayed
\* unread.
C14_Witness ==
  /\ failedAt = "attach"
  /\ enginePc = "done"
  /\ cacheFile = "keys"
  /\ Count(log, "onError") = 1

\* C20 as stated: the public-info event carries the merged record, the keys
\* of the wallet overlaid with the public keys, the same that the factory
\* gets.
C20_Original ==
  Count(log, "CURRENCY_WALLET_PUBLIC_INFO") > 0 =>
    /\ eventKeys = Overlay(WalletKeys, PublicKeys(publicWalletInfo))
    /\ eventKeys = factoryKeys

\* C20 amended: the event carries the derived or cached public keys alone,
\* none of the wallet's own keys; the merged record, the wallet's keys
\* overlaid with those public keys, goes to the factory only.
C20_EventCarriesPublicKeysOnly ==
  Count(log, "CURRENCY_WALLET_PUBLIC_INFO") > 0 =>
    /\ eventKeys = PublicKeys(publicWalletInfo)
    /\ \A p \in eventKeys : p \notin WalletKeys
    /\ factoryKeys = Overlay(WalletKeys, eventKeys)
    /\ \A p \in WalletKeys : p[1] = "privateKey" => p \in factoryKeys \ eventKeys

\* The factory was called with keys that the event did not carry.
C20_Witness ==
  /\ Count(log, "makeCurrencyEngine") = 1
  /\ eventKeys = {<<"publicKey", "derived">>}
  /\ factoryKeys = {<<"privateKey", "wallet">>, <<"publicKey", "derived">>}

\* C11: once the key cache file holds a non-empty key set, no step of any
\* generation replaces it by an empty one (or removes it), whatever
\* derivePublicKey gives when the keys are derived again.
C11_CacheNeverEmptied ==
  [][cacheFile = "keys" => cacheFile' = "keys"]_vars

\* A later generation missed the cache, derived no keys, went on to the
\* factory, and the file still holds the keys.
C11_Witness ==
  /\ teardown.gen > 0
  /\ cacheFile = "keys"
  /\ derived \in {"empty", "rejected"}
  /\ enginePc \in {"make", "done"}
  /\ publicWalletInfo = "empty"

\* C21: when the engine is created without an error, one step of the worker
\* emits CURRENCY_ENGINE_CHANGED_SEEDS, the engine output,
\* CURRENCY_ENGINE_CHANGED_BALANCE and CURRENCY_ENGINE_CHANGED_HEIGHT in this
\* order and completes the worker; CURRENCY_ENGINE_CHANGED_STAKING, if any,
\* comes in a later step, and a pending staking status does not keep the
\* worker from completing.
C21_CreationOrder ==
  /\ [][(~selfOutput.engine /\ selfOutput'.engine /\ failedAt' = "") =>
          /\ log' = log \o <<"CURRENCY_ENGINE_CHANGED_SEEDS", "out:engine",
                             "CURRENCY_ENGINE_CHANGED_BALANCE",
                             "CURRENCY_ENGINE_CHANGED_HEIGHT",
                             "loadAllFiles", "watchCurrencyWallet">>
          /\ enginePc = "make"
          /\ enginePc' = "done"
          /\ staking' \in {"none", "pending"}]_vars
  /\ [](/\ Before("CURRENCY_ENGINE_CHANGED_HEIGHT", "CURRENCY_ENGINE_CHANGED_STAKING")
        /\ Before("watchCurrencyWallet", "CURRENCY_ENGINE_CHANGED_STAKING")
        /\ staking = "pending" => enginePc = "done"
        /\ (Count(log, "CURRENCY_ENGINE_CHANGED_STAKING") = 1) <=> (staking = "done")
        /\ Count(log, "CURRENCY_ENGINE_CHANGED_STAKING") <= 1)

\* The staking status arrived after the worker had completed.
C21_Witness ==
  /\ staking = "done"
  /\ failedAt = ""
  /\ Count(log, "CURRENCY_ENGINE_CHANGED_STAKING") = 1
  /\ IndexOf(log, "out:engine") = IndexOf(log, "CURRENCY_ENGINE_CHANGED_SEEDS") + 1

\* C22 as stated: the failure of every asynchronous operation ends in a
\* dispatch or an onError call; none is left as an unhandled rejection.
C22_NoFailureEscapes ==
  /\ staking # "unhandled"
  /\ failedAt # "" => (Count(log, Failed) = 1 /\ log[IndexOf(log, Failed) - 1] = "onError")
  /\ files = "failed" => Count(log, "onError") > 0

\* C23 as stated: once CURRENCY_ENGINE_FAILED has been dispatched the engine
\* output is absent, whichever step of the worker raised the error.
C23_FailedMeansNoEngine ==
  Count(log, Failed) > 0 => ~selfOutput.engine

\* What the engine worker emits while it creates the engine.
CreationEvents ==
  {"makeCurrencyEngine", "out:engine", "CURRENCY_WALLET_PUBLIC_INFO",
   "CURRENCY_ENGINE_CHANGED_SEEDS", "CURRENCY_ENGINE_CHANGED_BALANCE",
   "CURRENCY_ENGINE_CHANGED_HEIGHT", "CURRENCY_ENGINE_FAILED"}

\* C24 as stated: once the group is destroyed, the engine worker still in
\* flight calls no factory, publishes no engine output and dispatches no
\* public info, seeds, balance, height or failure.
C24_DestroyCancelsCreation ==
  [][destroyed =>
       /\ \A x \in CreationEvents : Count(log', x) = Count(log, x)
       /\ selfOutput'.engine = selfOutput.engine]_vars

\* C25: a start that throws or rejects is passed to onError once and
\* changes nothing else: the step reports and settles the startup promise
\* only; no CURRENCY_ENGINE_FAILED or CURRENCY_ENGINE_STOPPED comes of it,
\* engineStarted stays set, startEngine is not called again, and a later
\* teardown still chains killEngine.
C25_StartFailureOnlyReported ==
  /\ [][Count(log', "onError:startEngine") # Count(log, "onError:startEngine") =>
          /\ \/ log' = Append(log, "onError:startEngine")
             \/ log' = log \o <<"startEngine", "onError:startEngine">>
          /\ engineStarted' = engineStarted
          /\ selfOutput' = selfOutput
          /\ startupPromise # "settled"
          /\ startupPromise' = "settled"
          /\ killChain' = killChain]_vars
  /\ [](Count(log, "onError:startEngine") > 0 =>
          /\ Count(log, "onError:startEngine") = 1
          /\ Count(log, "startEngine") = 1
          /\ Count(log, Started) = 1
          /\ Count(log, Failed) > 0 => failedAt # ""
          /\ Count(log, Stopped) > 0 => Count(log, "killEngine") = 1
          /\ ~destroyed => engineStarted
          /\ destroyed => killChain # "none"
          /\ killChain = "done" => Count(log, "killEngine") = 1)

\* The start failed, and the teardown that followed killed the engine.
C25_Witness ==
  /\ Count(log, "onError:startEngine") = 1
  /\ killChain = "done"
  /\ IndexOf(log, "onError:startEngine") < IndexOf(log, "killEngine")

\* C26: a killEngine that rejects is passed to onError, and
\* CURRENCY_ENGINE_STOPPED is dispatched right after it, once.
C26_KillFailureStillStops ==
  /\ Count(log, "onError:killEngine") <= 1
  /\ Count(log, "onError:killEngine") = 1 =>
       /\ IndexOf(log, "onError:killEngine") < Len(log)
       /\ log[IndexOf(log, "onError:killEngine") + 1] = Stopped
       /\ Count(log, Stopped) = 1
       /\ killChain = "done"
       /\ Count(log, "killEngine") = 1
       /\ IndexOf(log, "killEngine") < IndexOf(log, "onError:killEngine")

\* killEngine was called, rejected some time later, and the stop was
\* dispatched.
C26_Witness ==
  /\ Count(log, "onError:killEngine") = 1
  /\ Count(log, Stopped) = 1
  /\ IndexOf(log, "killEngine") > 0
  /\ ~engineStarted

\* C27: after the teardown of a generation that initiated a start, if
\* startEngine and killEngine settle, CURRENCY_ENGINE_STOPPED is eventually
\* dispatched; as long as startEngine has not settled, killEngine is not
\* called and nothing is dispatched, however long that lasts.
C27_StopEventuallyUnlessStartHangs ==
  /\ (destroyed /\ startupPromise # "none") ~> (Count(log, Stopped) = 1)
  /\ [](startupPromise # "settled" =>
          (Count(log, "killEngine") = 0 /\ Count(log, Stopped) = 0))

\* Teardown found the start still running; the stop was dispatched in the
\* end.
C27_Witness ==
  /\ teardown.done
  /\ teardown.during = "running"
  /\ Count(log, Stopped) = 1

\* C28: a tick without a resolved plugin publishes no plugin output,
\* reports and dispatches nothing and starts no attach; as long as there is
\* no plugin output there has been no error and no attach; the first tick
\* after the plugin resolved publishes it and begins the creation.
C28_UnresolvedPluginWaits ==
  /\ [][(Tick /\ ~pluginReady) =>
          /\ ~selfOutput'.plugin
          /\ log' = log
          /\ enginePc' = "idle"]_vars
  /\ [][(Tick /\ pluginReady /\ ~selfOutput.plugin) =>
          /\ selfOutput'.plugin
          /\ enginePc' = "attach"
          /\ log' = log \o <<"out:plugin", "addStorageWallet">>]_vars
  /\ [](~selfOutput.plugin =>
          /\ enginePc = "idle"
          /\ Count(log, "onError") = 0
          /\ Count(log, Failed) = 0
          /\ Count(log, "addStorageWallet") = 0)

\* The plugin is not resolved and a tick of this state leaves it as it is.
C28_Witness ==
  /\ ~pluginReady
  /\ ~destroyed
  /\ walletPixie(TickView).log = log
  /\ ~walletPixie(TickView).selfOutput.plugin
  /\ walletPixie(TickView).enginePc = "idle"

\* C29: when the cache file loads, the cached wallet info is what is
\* published and given on, as it is; derivePublicKey is not called and the
\* file is not written.
C29_CacheHitVerbatim ==
  /\ [][(enginePc = "load" /\ enginePc' # "load" /\ cacheFile # "none") =>
          /\ publicWalletInfo' = cacheFile
          /\ eventKeys' = PublicKeys(cacheFile)
          /\ cacheFile' = cacheFile
          /\ derived' = "none"
          /\ log' = log \o <<"CURRENCY_WALLET_PUBLIC_INFO", "makeCurrencyEngine">>]_vars
  /\ []((publicWalletInfo # "none" /\ derived = "none") =>
          /\ Count(log, "derivePublicKey") = 0
          /\ Count(log, "publicKeyFile.save") = 0
          /\ cacheFile = publicWalletInfo)

\* The engine was made from the cached info, nothing derived.
C29_Witness ==
  /\ derived = "none"
  /\ publicWalletInfo = "keys"
  /\ selfOutput.engine
  /\ Count(log, "publicKeyFile.load") = 1
  /\ Count(log, "derivePublicKey") = 0

\* C30: the cache file is written only by the save that follows a load
\* that gave nothing and a derivation that gave keys; that save is called
\* exactly once in such a generation and never in another, in particular
\* not in a generation that loaded the cache.
C30_WriteOnlyOnMissWithKeys ==
  /\ [][cacheFile' # cacheFile =>
          /\ enginePc = "save"
          /\ derived = "keys"
          /\ cacheFile' = "keys"]_vars
  /\ [](/\ Count(log, "publicKeyFile.save") <= 1
        /\ (Count(log, "publicKeyFile.save") = 1) <=> (derived = "keys")
        /\ derived # "none" => Count(log, "derivePublicKey") = 1
        /\ (publicWalletInfo # "none" /\ derived = "none") =>
             Count(log, "publicKeyFile.save") = 0)

\* A later generation found the cache that an earlier one had written and
\* wrote nothing.
C30_Witness ==
  /\ teardown.gen > 0
  /\ cacheFile = "keys"
  /\ derived = "none"
  /\ enginePc = "done"
  /\ publicWalletInfo = "keys"
  /\ Count(log, "publicKeyFile.save") = 0

\* C31: the engine worker calls loadAllFiles and watchCurrencyWallet once
\* each, at the end of its one run, whether the creation succeeded or
\* failed, and never without a plugin; a reload that fails is passed to
\* onError and changes neither the outputs nor the failure state, and
\* dispatches nothing.
C31_ReloadOnceAndHarmless ==
  /\ [](/\ Count(log, "loadAllFiles") <= 1
        /\ Count(log, "watchCurrencyWallet") <= 1
        /\ enginePc = "done" <=> Count(log, "loadAllFiles") = 1
        /\ enginePc = "done" <=> Count(log, "watchCurrencyWallet") = 1
        /\ enginePc = "done" <=> watching
        /\ enginePc = "done" <=> files # "none"
        /\ Count(log, "loadAllFiles") = 1 => selfOutput.plugin)
  /\ [][(files = "loading" /\ files' = "failed") =>
          /\ log' = Append(log, "onError")
          /\ selfOutput' = selfOutput
          /\ failedAt' = failedAt
          /\ engineStarted' = engineStarted]_vars

\* The engine was created, the reload failed, and the engine output is
\* still there with no failure dispatched.
C31_Witness ==
  /\ files = "failed"
  /\ selfOutput.engine
  /\ failedAt = ""
  /\ Count(log, Failed) = 0
  /\ Count(log, "loadAllFiles") = 1
  /\ Count(log, "watchCurrencyWallet") = 1

\* C32: each of the plugin, engine and api outputs is published at most
\* once, is present exactly when it has been published, and once present
\* stays as it is in every later step; the API object is built once.
C32_OutputsSetOnce ==
  /\ [](/\ Count(log, "out:plugin") <= 1
        /\ Count(log, "out:engine") <= 1
        /\ Count(log, "out:api") <= 1
        /\ selfOutput.plugin <=> Count(log, "out:plugin") = 1
        /\ selfOutput.engine <=> Count(log, "out:engine") = 1
        /\ selfOutput.api <=> Count(log, "out:api") = 1
        /\ selfOutput.api <=> apiDone)
  /\ [][/\ selfOutput.plugin =>
             (selfOutput'.plugin /\ Count(log', "out:plugin") = 1)
        /\ selfOutput.engine =>
             (selfOutput'.engine /\ Count(log', "out:engine") = 1)
        /\ selfOutput.api =>
             (selfOutput'.api /\ Count(log', "out:api") = 1)]_vars

\* All three outputs are present and ticks went on after the api was
\* published.
C32_Witness ==
  /\ selfOutput.plugin /\ selfOutput.engine /\ selfOutput.api
  /\ Count(log, "out:api") = 1
  /\ IndexOf(log, "out:api") < IndexOf(log, Started)
  /\ tickDid = {"task.start"}

\* C33 as stated: a tick calls update(api) exactly when the api output it
\* ends with differs from the api output the previous tick ended with.
C33_Original ==
  [][Tick => (("update(api)" \in tickDid') <=>
                (selfOutput'.api # selfOutput.api))]_vars

\* C33: a tick calls update(api) exactly when the wallet's self state is
\* not the one the watcher saw last (it changed since the previous tick or
\* is changed by this tick's own dispatch) and the api output is present;
\* the watcher then remembers the state, so a tick that follows with the
\* same state does not call it; update(api) is never called while the api
\* output is absent.
C33_UpdateOnSelfStateChange ==
  /\ [][Tick =>
          /\ ("update(api)" \in tickDid') <=>
               /\ stateDirty \/ "startupPromise" \in tickDid'
               /\ selfOutput'.api
          /\ HasSelfOutput(selfOutput') => ~stateDirty'
          /\ (~stateDirty /\ "startupPromise" \notin tickDid') =>
               "update(api)" \notin tickDid']_vars
  /\ [](~selfOutput.api => "update(api)" \notin tickDid)

\* The api was published before the engine reported its staking status;
\* the tick after that dispatch notified the bridge although the api
\* output was the same object.
C33_Witness ==
  /\ "update(api)" \in tickDid
  /\ ~stateDirty
  /\ log # <<>>
  /\ log[Len(log)] = "CURRENCY_ENGINE_CHANGED_STAKING"
  /\ IndexOf(log, "out:api") > 0

\* C34: a tick calls engine.changeUserSettings exactly when the settings
\* reference is not the one the watcher saw last and the engine output is
\* present, and then with the current settings; a tick with the settings
\* reference unchanged never calls it.
C34_SettingsPushedOnChange ==
  [][Tick =>
       /\ ("changeUserSettings" \in tickDid') <=>
            (lastSettings # userSettings /\ selfOutput'.engine)
       /\ "changeUserSettings" \in tickDid' => engineSettings' = userSettings
       /\ "changeUserSettings" \notin tickDid' => engineSettings' = engineSettings
       /\ HasSelfOutput(selfOutput') => lastSettings' = userSettings
       /\ lastSettings = userSettings => "changeUserSettings" \notin tickDid']_vars

\* The settings changed after the engine was created and a tick pushed
\* them into the engine.
C34_Witness ==
  /\ "changeUserSettings" \in tickDid
  /\ selfOutput.engine
  /\ capturedSettings = 0
  /\ engineSettings = userSettings
  /\ userSettings > 0

\* C35: after any tick that finds the engine output present, the settings
\* the engine last received (from the factory or from changeUserSettings)
\* are the current user settings.
C35_EngineSettingsCurrent ==
  [][(Tick /\ selfOutput'.engine) => engineSettings' = userSettings']_vars

\* C36: a tick that calls task.start on a task that is already started
\* changes nothing of the task: the pending timeout keeps its remaining
\* time, no second timeout and no sync invocation is added; only the call
\* on a stopped task starts it, with the first run one interval away.  A
\* started task has either its one timeout pending or its one invocation
\* in flight.
C36_StartIsNoOpWhenRunning ==
  /\ [][(Tick /\ taskStarted) =>
          /\ taskStarted'
          /\ timer' = timer
          /\ syncRunning' = syncRunning
          /\ "task.started" \notin tickDid']_vars
  /\ [][(Tick /\ ~taskStarted /\ "task.start" \in tickDid') =>
          /\ taskStarted'
          /\ timer' = Interval
          /\ syncRunning' = syncRunning]_vars
  /\ [](taskStarted => (timer >= 0) # (syncRunning > 0))

\* An unpaused tick called task.start while the timeout of the started
\* task had run down and was about to fire.
C36_Witness ==
  /\ taskStarted
  /\ timer = 0
  /\ "task.start" \in tickDid
  /\ "task.started" \notin tickDid
  /\ ~PausedFilter

\* C37: once the syncTimer worker is destroyed the task is stopped and no
\* timeout is pending, and it stays so; no step after the destroy begins a
\* sync invocation; the destroy itself leaves an invocation in flight as
\* it is, that invocation can still complete, and its completion sets no
\* timeout.
C37_NoSyncAfterStop ==
  /\ [](destroyed =>
          /\ ~taskStarted
          /\ timer = -1
          /\ syncRunning > 0 => ENABLED SyncSettle)
  /\ [][destroyed => syncRunning' <= syncRunning]_vars
  /\ [][(~destroyed /\ destroyed') => syncRunning' = syncRunning]_vars
  /\ [][(destroyed /\ syncRunning' < syncRunning) =>
          (timer' = -1 /\ ~taskStarted')]_vars

\* The worker was destroyed while a sync was in flight and after the engine
\* had been started.
C37_Witness ==
  /\ destroyed
  /\ syncRunning = 1
  /\ timer = -1
  /\ ~taskStarted
  /\ teardown.during = "settled"

\* C38: a doSync that rejects reaches neither onError nor the store: the
\* step appends nothing to the log, leaves the outputs, the failure state
\* and the engine's started flag as they are, keeps the task started and
\* sets the timeout for the next run one interval away.
C38_SyncFailureSwallowed ==
  [][(syncRunning' < syncRunning /\ syncRejected') =>
       /\ log' = log
       /\ selfOutput' = selfOutput
       /\ failedAt' = failedAt
       /\ engineStarted' = engineStarted
       /\ stateDirty' = stateDirty
       /\ taskStarted' = taskStarted
       /\ taskStarted => (timer' = Interval /\ syncRunning' = 0)]_vars

\* A sync of the running wallet rejected; nothing was reported and the
\* next run is scheduled.
C38_Witness ==
  /\ syncRejected
  /\ taskStarted
  /\ timer = Interval
  /\ syncRunning = 0
  /\ selfOutput.engine
  /\ Count(log, "onError") = 0
  /\ Count(log, Failed) = 0

\* C39: at most one doSync invocation of the wallet is in flight at any
\* time, those of torn-down generations included.
C39_OneSyncInFlight == syncRunning + teardown.orphans <= 1

\* Everything the start waits for is there: the engine output and the
\* public wallet info (so plugin, attach and factory succeeded) and the
\* three loaded flags.
C40_Ready ==
  /\ selfOutput.engine
  /\ publicWalletInfo # "none"
  /\ nameLoaded
  /\ fiatLoaded
  /\ fileNamesLoaded

\* C40: under fair scheduling, whenever everything the start waits for is
\* available and the wallet is unpaused and not destroyed, startEngine is
\* eventually invoked unless the wallet is paused or destroyed first; so a
\* wallet that from some moment on stays unpaused and alive gets its engine
\* started, whatever pauses and resumes came before.
C40_StartEventually ==
  (C40_Ready /\ ~statePaused /\ ~selfPaused /\ ~destroyed)
    ~> (Count(log, "startEngine") > 0 \/ statePaused \/ selfPaused \/ destroyed)

\* startEngine was invoked on a ready wallet that is unpaused and alive.
C40_Witness ==
  /\ C40_Ready
  /\ ~statePaused /\ ~selfPaused /\ ~destroyed
  /\ Count(log, "startEngine") = 1
  /\ startupPromise = "running"

====
